---- MODULE Spec2Model ----
(***************************************************************************)
(* A model of masto_admin_metrics (src/main.py): the measure objects       *)
(* CounterMeasure and UniqueMeasure, the orchestrator update_all and the   *)
(* poll loop of main.                                                      *)
(*                                                                         *)
(* Calendar dates are integers (day numbers); the UTC clock is the         *)
(* variable now.  A gauge is its current value (a prometheus Gauge starts  *)
(* at 0 and set() is last-value-wins).  A data point of a response is a    *)
(* record [date, value]; a series is a sequence of data points.            *)
(***************************************************************************)
EXTENDS Integers, Sequences, FiniteSets, TLC

\* ---------------------------------------------------------------- bounds
\* The clock runs over the days 0..MaxDay.
MaxDay == 1
\* Values carried by the data points of the measure-level specifications.
MaxVal == 2
\* The longest series a response holds.
MaxLen == 3
\* The update_all calls of one run: the bootstrap one and MaxCycles - 1 polls.
MaxCycles == 3
\* The counter measures of the poll-loop specification: the first NumCounters
\* of the four that MEASURE_NAMES lists.
NumCounters == 2

\* ------------------------------------------------------ program constants
ONE_DAY == 1
SEVEN_DAYS == 7
THIRTY_DAYS == 30

\* The poll interval in seconds (the default of line 207).
UPDATE_SECS == 30

CounterList == <<"interactions", "new_users", "opened_reports", "resolved_reports">>

MEASURE_NAMES ==
    [counter |-> {CounterList[i] : i \in 1..NumCounters},
     unique  |-> {"active_users"}]

VARIABLES
    now,        \* the UTC calendar date, as read by datetime.utcnow().date()
    MEASURES,   \* MEASURES[kind][name]: the gauges of each measure object
    pc,         \* where the program is
    call,       \* the last call of a measure operation: its arguments and outcome
    up,         \* the gauge masto_admin_metrics_up: <<>> until created, then <<value>>
    server,     \* whether start_wsgi_server has opened the scrape endpoint
    phase,      \* "Bootstrapping" until up is first set, then "Serving"
    cycle,      \* the number of update_all calls begun
    counts,     \* the keys of the dict counts that the loop of update_counters has yet to visit
    issued,     \* the remote queries issued so far by the running update_all, in order
    result,     \* how the current update_all call ended, once it has
    prev,       \* what the update_all call before the current one raised ("none": it returned)
    boot,       \* what the bootstrap update_all call raised ("none": it returned)
    wall        \* seconds: the sleep before the last update_all call began, and
                \* how long the last call that ended took (until the next is under way)

mainvars == <<up, server, phase, cycle, counts, issued, result, prev, boot, wall>>

vars == <<now, MEASURES, pc, call, up, server, phase, cycle, counts, issued, result, prev, boot,
          wall>>

\* ------------------------------------------------------------- the clock
\* today() and yesterday() read the clock each time they are called.  One
\* operation reads it several times; clk is the sequence of dates its reads
\* return.  The date advances at most once while one operation runs.
ClockReads(n) ==
    {[i \in 1..n |-> now]} \cup
    {[i \in 1..n |-> IF i < k THEN now ELSE now + ONE_DAY] :
        k \in 1..(IF now < MaxDay THEN n ELSE 0)}

today(clk, i) == clk[i]

yesterday(clk, i) == today(clk, i) - ONE_DAY

\* The clock after an operation that made the reads clk.
ClockAfter(clk) == IF Len(clk) = 0 THEN now ELSE clk[Len(clk)]

\* ------------------------------------------------------------- responses
\* The series of at most n points with distinct dates among dates and values
\* among vals, in every order.
Dates(data) == {data[i].date : i \in 1..Len(data)}

RECURSIVE SeriesOver(_, _, _)
SeriesOver(dates, vals, n) ==
    IF n = 0 THEN {<<>>}
    ELSE LET shorter == SeriesOver(dates, vals, n - 1)
         IN  shorter \cup
             UNION {{Append(s, [date |-> d, value |-> v]) :
                        d \in dates \ Dates(s), v \in vals} :
                    s \in {x \in shorter : Len(x) = n - 1}}

\* The value of the point of data dated d.
ValueAt(data, d) == data[CHOOSE i \in 1..Len(data) : data[i].date = d].value

\* ------------------------------------------------------- CounterMeasure
\* The loop of update_with_data: t and y are None (<<>>) or a value (<<v>>).
\* The i-th point is compared with today() (read 2i-1) and, if that fails,
\* with yesterday() (read 2i).
RECURSIVE ScanDays(_, _, _, _, _)
ScanDays(data, clk, i, t, y) ==
    IF i > Len(data) THEN [t |-> t, y |-> y]
    ELSE LET date  == data[i].date
             value == data[i].value
         IN  IF date = today(clk, 2 * i - 1)
                 THEN ScanDays(data, clk, i + 1, <<value>>, y)
             ELSE IF date = yesterday(clk, 2 * i)
                 THEN ScanDays(data, clk, i + 1, t, <<value>>)
             ELSE ScanDays(data, clk, i + 1, t, y)

\* A plausible slip: today's gauge is set as soon as t is known, before the
\* check of y.
update_with_data_partial(self, data, clk) ==
    LET r == ScanDays(data, clk, 1, <<>>, <<>>)
    IN  IF r.t = <<>> THEN [raised |-> "AssertionError", self |-> self]
        ELSE IF r.y = <<>>
            THEN [raised |-> "AssertionError",
                  self |-> [self EXCEPT !.today = r.t[1]]]
        ELSE [raised |-> "none",
              self |-> [today |-> r.t[1], yesterday |-> r.y[1]]]

\* A plausible slip: the two gauges are set the wrong way round.
update_with_data_swapped(self, data, clk) ==
    LET r == ScanDays(data, clk, 1, <<>>, <<>>)
    IN  IF r.t = <<>> \/ r.y = <<>> THEN [raised |-> "AssertionError", self |-> self]
        ELSE [raised |-> "none",
              self |-> [today |-> r.y[1], yesterday |-> r.t[1]]]

\* A plausible slip: the gauges are incremented by the values (inc) where
\* they should be set to them.
update_with_data_inc(self, data, clk) ==
    LET r == ScanDays(data, clk, 1, <<>>, <<>>)
    IN  IF r.t = <<>> THEN [raised |-> "AssertionError", self |-> self]
        ELSE IF r.y = <<>> THEN [raised |-> "AssertionError", self |-> self]
        ELSE [raised |-> "none",
              self |-> [today |-> self.today + r.t[1],
                        yesterday |-> self.yesterday + r.y[1]]]

\* CounterMeasure.update_with_data: the gauges after the call, and what it
\* raised ("none": it returned).
update_with_data(self, data, clk) ==
    LET r == ScanDays(data, clk, 1, <<>>, <<>>)
    IN  IF r.t = <<>> THEN [raised |-> "AssertionError", self |-> self]
        ELSE IF r.y = <<>> THEN [raised |-> "AssertionError", self |-> self]
        ELSE [raised |-> "none",
              self |-> [today |-> r.t[1], yesterday |-> r.y[1]]]

\* ------------------------------------------------------------ the remote
\* What mastodon.admin_measures does for one requested metric: it raises a
\* remote error, or returns a result with a series and its total.
RemoteErrors == {"MastodonServerError", "MastodonNetworkError"}

Raises(kind) == [raised |-> kind, data |-> <<>>, total |-> 0]

Returns(data, total) == [raised |-> "none", data |-> data, total |-> total]

\* -------------------------------------------------------- UniqueMeasure
\* min(...) and max(...) over the dates of a series that is not empty.
Earliest(data) == CHOOSE d \in Dates(data) : \A e \in Dates(data) : d <= e

Latest(data) == CHOOSE d \in Dates(data) : \A e \in Dates(data) : d >= e

\* A plausible slip: only the end of the range is verified.
verify_range_end_only(data, begin_date, end_date) ==
    Latest(data) = end_date

\* verify_range, for a series that is not empty (min() and max() raise a
\* ValueError for an empty one: see update_range).
verify_range(data, begin_date, end_date) ==
    LET earliest == Earliest(data)
        latest   == Latest(data)
    IN  earliest = begin_date /\ latest = end_date

\* A plausible slip: the date of the single point is not compared with d.
update_day_any_date(self, resp, d, g) ==
    IF resp.raised # "none" THEN [raised |-> resp.raised, self |-> self]
    ELSE IF Len(resp.data) # 1 THEN [raised |-> "AssertionError", self |-> self]
    ELSE [raised |-> "none", self |-> [self EXCEPT ![g] = resp.data[1].value]]

\* A different design: a result of the wrong shape resets the gauge to 0.
update_day_reset(self, resp, d, g) ==
    IF resp.raised # "none" THEN [raised |-> resp.raised, self |-> self]
    ELSE IF Len(resp.data) # 1 \/ resp.data[1].date # d
        THEN [raised |-> "AssertionError", self |-> [self EXCEPT ![g] = 0]]
    ELSE [raised |-> "none", self |-> [self EXCEPT ![g] = resp.data[1].value]]

\* UniqueMeasure.update_day for the day d and the gauge g, given what the
\* remote query did: the gauges after the call and what it raised.
update_day(self, resp, d, g) ==
    IF resp.raised # "none" THEN [raised |-> resp.raised, self |-> self]
    ELSE LET data == resp.data
         IN  IF Len(data) # 1 THEN [raised |-> "AssertionError", self |-> self]
             ELSE LET item == data[1]
                  IN  IF item.date # d
                          THEN [raised |-> "AssertionError", self |-> self]
                      ELSE [raised |-> "none",
                            self |-> [self EXCEPT ![g] = item.value]]

\* UniqueMeasure.update_range for the inclusive range start_date..end_date
\* and the gauge g, given what the remote query did.
update_range(self, resp, start_date, end_date, g) ==
    IF resp.raised # "none" THEN [raised |-> resp.raised, self |-> self]
    ELSE LET data == resp.data
         IN  IF Len(data) = 0 THEN [raised |-> "ValueError", self |-> self]
             ELSE IF ~verify_range(data, start_date, end_date)
                 THEN [raised |-> "AssertionError", self |-> self]
             ELSE [raised |-> "none", self |-> [self EXCEPT ![g] = resp.total]]

\* ------------------------------------------------------------ the state
NoCall == [op |-> "none"]

CounterMeasure == [today |-> 0, yesterday |-> 0]

UniqueMeasure == [today |-> 0, yesterday |-> 0, last_7d |-> 0, last_30d |-> 0]

MEASURES_Init ==
    [counter |-> [name \in MEASURE_NAMES.counter |-> CounterMeasure],
     unique  |-> [name \in MEASURE_NAMES.unique |-> UniqueMeasure]]

\* The value of result while update_all runs.
Running == [call |-> 0]

\* The program before main has run.
NotStarted ==
    /\ up = <<>>
    /\ server = FALSE
    /\ phase = "Bootstrapping"
    /\ cycle = 0
    /\ counts = {}
    /\ issued = <<>>
    /\ result = Running
    /\ prev = "no call"
    /\ boot = "no call"
    /\ wall = [slept |-> 0, took |-> 0]

\* ------------------------------------- CounterMeasure on its own (SpecCounter)
\* One counter measure, holding any values earlier updates may have left, is
\* handed any series in the days around the clock.
CounterDates == (now - 2 * ONE_DAY)..(now + ONE_DAY)

InitCounter ==
    /\ now = 0
    /\ \E t \in 0..MaxVal, y \in 0..MaxVal :
           MEASURES = [MEASURES_Init EXCEPT
                          !.counter["interactions"] = [today |-> t, yesterday |-> y]]
    /\ pc = "measure"
    /\ call = NoCall
    /\ NotStarted

CallUpdateWithData ==
    /\ pc = "measure"
    /\ \E data \in SeriesOver(CounterDates, 1..MaxVal, MaxLen) :
       \E clk \in ClockReads(2 * Len(data)) :
           LET self == MEASURES.counter["interactions"]
               r    == update_with_data(self, data, clk)
           IN  /\ MEASURES' = [MEASURES EXCEPT !.counter["interactions"] = r.self]
               /\ now' = ClockAfter(clk)
               /\ call' = [op |-> "update_with_data", data |-> data,
                           first |-> now, last |-> ClockAfter(clk),
                           before |-> self, raised |-> r.raised]
    /\ pc' = "returned"
    /\ UNCHANGED mainvars

\* Time passes before a measure operation, or while the loop sleeps (line 223).
Tick ==
    /\ pc \in {"measure", "sleep"}
    /\ now < MaxDay
    /\ now' = now + ONE_DAY
    /\ UNCHANGED <<MEASURES, pc, call, mainvars>>

NextCounter == CallUpdateWithData \/ Tick

SpecCounter == InitCounter /\ [][NextCounter]_vars

\* -------------------------------------- UniqueMeasure on its own (SpecUnique)
\* One unique measure, holding any values earlier updates may have left, makes
\* one update_day or one update_range call; the remote answers with any
\* series in the days around the requested ones, or raises.
DayDates(d) == (d - ONE_DAY)..(d + ONE_DAY)

RangeDates(start_date, end_date) ==
    (start_date - ONE_DAY)..(start_date + ONE_DAY)
        \cup (end_date - ONE_DAY)..(end_date + ONE_DAY)

\* The code reads the values of a single-day series and the total of a ranged
\* one, so the values vary in the first and the total in the second.
Responses(dates, vals, totals) ==
    {Raises(kind) : kind \in RemoteErrors}
        \cup {Returns(data, total) :
                 data \in SeriesOver(dates, vals, MaxLen), total \in totals}

InitUnique ==
    /\ now = 0
    /\ \E v \in 0..MaxVal :
           MEASURES = [MEASURES_Init EXCEPT
                          !.unique["active_users"] =
                              [today |-> v, yesterday |-> v,
                               last_7d |-> v, last_30d |-> v]]
    /\ pc = "measure"
    /\ call = NoCall
    /\ NotStarted

CallUpdateDay ==
    /\ pc = "measure"
    /\ \E g \in {"today", "yesterday"} :
       \E clk \in ClockReads(1) :
           LET d == IF g = "today" THEN today(clk, 1) ELSE yesterday(clk, 1)
           IN  \E resp \in Responses(DayDates(d), 1..MaxVal, {MaxVal}) :
                   LET self == MEASURES.unique["active_users"]
                       r    == update_day(self, resp, d, g)
                   IN  /\ MEASURES' = [MEASURES EXCEPT
                                          !.unique["active_users"] = r.self]
                       /\ call' = [op |-> "update_day", d |-> d, g |-> g,
                                   resp |-> resp, before |-> self,
                                   raised |-> r.raised]
    /\ pc' = "returned"
    /\ UNCHANGED <<now, mainvars>>

CallUpdateRange ==
    /\ pc = "measure"
    /\ \E w \in {[days |-> SEVEN_DAYS, g |-> "last_7d"],
                  [days |-> THIRTY_DAYS, g |-> "last_30d"]} :
       \E clk \in ClockReads(2) :
           LET start_date == yesterday(clk, 1) - w.days
               end_date   == yesterday(clk, 2)
           IN  \E resp \in Responses(RangeDates(start_date, end_date), {1}, 1..MaxVal) :
                   LET self == MEASURES.unique["active_users"]
                       r    == update_range(self, resp, start_date, end_date, w.g)
                   IN  /\ MEASURES' = [MEASURES EXCEPT
                                          !.unique["active_users"] = r.self]
                       /\ now' = ClockAfter(clk)
                       /\ call' = [op |-> "update_range",
                                   start_date |-> start_date,
                                   end_date |-> end_date, g |-> w.g,
                                   resp |-> resp, before |-> self,
                                   raised |-> r.raised]
    /\ pc' = "returned"
    /\ UNCHANGED mainvars

NextUnique == CallUpdateDay \/ CallUpdateRange \/ Tick

SpecUnique == InitUnique /\ [][NextUnique]_vars

\* ------------------------------- the same response applied twice (SpecTwice)
\* The reads of the clock of an operation during which the date does not change.
SameDay(n) == [i \in 1..n |-> now]

\* The measures after the operation of the record c is applied to them again,
\* with the arguments and the response of c, and what the operation raises.
Reapply(c) ==
    IF c.op = "update_with_data"
        THEN LET r == update_with_data(MEASURES.counter["interactions"], c.data,
                                       SameDay(2 * Len(c.data)))
             IN  [raised |-> r.raised,
                  measures |-> [MEASURES EXCEPT !.counter["interactions"] = r.self]]
    ELSE IF c.op = "update_day"
        THEN LET r == update_day(MEASURES.unique["active_users"], c.resp, c.d, c.g)
             IN  [raised |-> r.raised,
                  measures |-> [MEASURES EXCEPT !.unique["active_users"] = r.self]]
    ELSE LET r == update_range(MEASURES.unique["active_users"], c.resp,
                               c.start_date, c.end_date, c.g)
         IN  [raised |-> r.raised,
              measures |-> [MEASURES EXCEPT !.unique["active_users"] = r.self]]

InitTwice == InitCounter \/ InitUnique

\* The operation that has returned or raised is called a second time with the
\* same arguments and is given the same response, the date being the one of
\* the first call.
CallAgain ==
    /\ pc = "returned"
    /\ call.op = "update_with_data" => call.first = call.last
    /\ LET r == Reapply(call)
       IN  /\ MEASURES' = r.measures
           /\ call' = [op |-> "again", of |-> call, once |-> MEASURES,
                       raised |-> r.raised]
    /\ pc' = "repeated"
    /\ UNCHANGED <<now, mainvars>>

NextTwice ==
    \/ CallUpdateWithData
    \/ CallUpdateDay
    \/ CallUpdateRange
    \/ CallAgain
    \/ Tick

SpecTwice == InitTwice /\ [][NextTwice]_vars

\* ------------------------------------------------------ the program (Spec)
\* The remote's data changes from one poll to the next: every value a
\* response of the c-th update_all carries is c, so a gauge shows the cycle
\* that last wrote it (0: never written).
CycleVals == {cycle}

\* A gauge value the current update_all has written.
Fresh(v) == v = cycle

\* A gauge value the current update_all found and has not replaced: every
\* set() of the current call stores the value cycle, and every earlier one
\* stored less.
Stale(v) == v < cycle

StaleCounter(name) ==
    Stale(MEASURES.counter[name].today) /\ Stale(MEASURES.counter[name].yesterday)

\* The days a..b in order, one point a day: what the remote returns for a
\* window (b = a - 1: no point).
Run(a, b, v) == [i \in 1..(b - a + 1) |-> [date |-> a + i - 1, value |-> v]]

\* The remote answers a query with the days of its window, or with a run of
\* days that starts or ends up to a day early or late, or with no day at all.
Runs(starts, ends, vals) ==
    {<<>>} \cup {Run(a, b, v) : a \in starts, b \in ends, v \in vals}

RunResponses(starts, ends) ==
    {Raises(kind) : kind \in RemoteErrors}
        \cup {Returns(data, total) :
                 data \in Runs(starts, ends, CycleVals), total \in CycleVals}

Init ==
    /\ now = 0
    /\ MEASURES = MEASURES_Init
    /\ pc = "get_mastodon"
    /\ call = NoCall
    /\ NotStarted

\* How long an update_all call may take: a second, or twice the poll interval.
Durations == {1, 2 * UPDATE_SECS}

\* How one update_all call ended: which call it was, what it raised ("none":
\* it returned), the step that raised, the measure that step was updating,
\* and the queries the call had issued, the last of them in full.
Ended(raised, at, name, sent) ==
    [call |-> cycle, raised |-> raised, at |-> at, name |-> name,
     queries |-> Len(sent), query |-> sent[Len(sent)]]

\* A plausible slip: the bootstrap call is wrapped in the same try as the
\* calls of the loop.
Finish_bootstrap_caught(raised, at, name, sent) ==
    /\ result' = Ended(raised, at, name, sent)
    /\ boot' = IF phase = "Bootstrapping" THEN raised ELSE boot
    /\ issued' = <<>>
    /\ \E took \in Durations : wall' = [wall EXCEPT !.took = took]
    /\ IF raised = "none" \/ raised \in RemoteErrors
           THEN /\ pc' = IF phase = "Bootstrapping" THEN "start_wsgi_server" ELSE "sleep"
                /\ up' = IF phase = "Bootstrapping" THEN up
                          ELSE IF raised = "none" THEN <<1>> ELSE <<0>>
           ELSE /\ pc' = "exited"
                /\ up' = up

\* A plausible slip: the else branch of the try is missing, so nothing sets
\* the gauge back to 1.
Finish_no_else(raised, at, name, sent) ==
    /\ result' = Ended(raised, at, name, sent)
    /\ boot' = IF phase = "Bootstrapping" THEN raised ELSE boot
    /\ issued' = <<>>
    /\ \E took \in Durations : wall' = [wall EXCEPT !.took = took]
    /\ IF phase = "Bootstrapping"
           THEN /\ pc' = IF raised = "none" THEN "start_wsgi_server" ELSE "exited"
                /\ up' = up
           ELSE IF raised = "none"
               THEN pc' = "sleep" /\ up' = up
           ELSE IF raised \in RemoteErrors
               THEN pc' = "sleep" /\ up' = <<0>>
           ELSE pc' = "exited" /\ up' = up

\* A plausible slip: only MastodonServerError is caught.
Finish_network_uncaught(raised, at, name, sent) ==
    /\ result' = Ended(raised, at, name, sent)
    /\ boot' = IF phase = "Bootstrapping" THEN raised ELSE boot
    /\ issued' = <<>>
    /\ \E took \in Durations : wall' = [wall EXCEPT !.took = took]
    /\ IF phase = "Bootstrapping"
           THEN /\ pc' = IF raised = "none" THEN "start_wsgi_server" ELSE "exited"
                /\ up' = up
           ELSE IF raised = "none"
               THEN pc' = "sleep" /\ up' = <<1>>
           ELSE IF raised = "MastodonServerError"
               THEN pc' = "sleep" /\ up' = <<0>>
           ELSE pc' = "exited" /\ up' = up

\* A plausible slip: a bare except around update_all, which swallows the
\* errors of the measures too.
Finish_bare_except(raised, at, name, sent) ==
    /\ result' = Ended(raised, at, name, sent)
    /\ boot' = IF phase = "Bootstrapping" THEN raised ELSE boot
    /\ issued' = <<>>
    /\ \E took \in Durations : wall' = [wall EXCEPT !.took = took]
    /\ IF phase = "Bootstrapping"
           THEN /\ pc' = IF raised = "none" THEN "start_wsgi_server" ELSE "exited"
                /\ up' = up
           ELSE /\ pc' = "sleep"
                /\ up' = IF raised = "none" THEN <<1>> ELSE <<0>>

\* A different design: the loop catches the errors of the measures too, marks
\* the data stale and then ends.
Finish_shape_sets_zero(raised, at, name, sent) ==
    /\ result' = Ended(raised, at, name, sent)
    /\ boot' = IF phase = "Bootstrapping" THEN raised ELSE boot
    /\ issued' = <<>>
    /\ \E took \in Durations : wall' = [wall EXCEPT !.took = took]
    /\ IF phase = "Bootstrapping"
           THEN /\ pc' = IF raised = "none" THEN "start_wsgi_server" ELSE "exited"
                /\ up' = up
           ELSE IF raised = "none"
               THEN pc' = "sleep" /\ up' = <<1>>
           ELSE IF raised \in RemoteErrors
               THEN pc' = "sleep" /\ up' = <<0>>
           ELSE pc' = "exited" /\ up' = <<0>>

\* update_all returns or raises to main, having sent the queries sent.  The
\* bootstrap call (line 204) is outside any try: an error ends the process.
\* In the loop (lines 224-233) the two remote errors set up to 0, any other
\* error ends the process, and a return sets up to 1.
Finish(raised, at, name, sent) ==
    /\ result' = Ended(raised, at, name, sent)
    /\ boot' = IF phase = "Bootstrapping" THEN raised ELSE boot
    /\ issued' = <<>>
    /\ \E took \in Durations : wall' = [wall EXCEPT !.took = took]
    /\ IF phase = "Bootstrapping"
           THEN /\ pc' = IF raised = "none" THEN "start_wsgi_server" ELSE "exited"
                /\ up' = up
           ELSE IF raised = "none"
               THEN pc' = "sleep" /\ up' = <<1>>
           ELSE IF raised = "MastodonServerError"
               THEN pc' = "sleep" /\ up' = <<0>>
           ELSE IF raised = "MastodonNetworkError"
               THEN pc' = "sleep" /\ up' = <<0>>
           ELSE pc' = "exited" /\ up' = up

\* A step of update_all goes on to the next step, having sent the queries sent.
Continue(next, sent) ==
    /\ pc' = next
    /\ issued' = sent
    /\ wall' = [wall EXCEPT !.took = 0]
    /\ UNCHANGED <<up, result, boot>>

\* The query a step issues: the requested names and the window [start, end).
Query(names, start, end) == [names |-> names, start |-> start, end |-> end]

\* get_mastodon() and the call of update_all (lines 203-204).
GetMastodon ==
    /\ pc = "get_mastodon"
    /\ \/ /\ pc' = "update_counters"
          /\ cycle' = 1
       \/ /\ pc' = "exited"
          /\ UNCHANGED cycle
    /\ UNCHANGED <<now, MEASURES, call, up, server, phase, counts, issued, result, prev, boot, wall>>

\* The keys of a batched response: every requested name, or all but one.
ResponseKeys ==
    {MEASURE_NAMES.counter}
        \cup {MEASURE_NAMES.counter \ {name} : name \in MEASURE_NAMES.counter}

\* update_counters up to the dict counts (lines 163-172): the window is read
\* from the clock, one query names every counter, and the dict holds the
\* series of each key of the response.
UpdateCounters ==
    /\ pc = "update_counters"
    /\ \E clk \in ClockReads(2) :
           LET sent == Append(issued, Query(MEASURE_NAMES.counter,
                                            yesterday(clk, 1),
                                            today(clk, 2) + ONE_DAY))
           IN  /\ now' = ClockAfter(clk)
               /\ \/ \E kind \in RemoteErrors :
                         /\ Finish(kind, "update_counters", "", sent)
                         /\ UNCHANGED counts
                  \/ \E keys \in ResponseKeys :
                         /\ counts' = keys
                         /\ Continue("counters_loop", sent)
    /\ UNCHANGED <<MEASURES, call, server, phase, cycle, prev>>

\* One iteration of the loop of update_counters (lines 174-175), on any key
\* the dict still holds: the response's order is the remote's.
CountersLoop ==
    /\ pc = "counters_loop"
    /\ \E name \in counts :
       \E data \in Runs((issued[1].start - ONE_DAY)..issued[1].end,
                        (issued[1].start - ONE_DAY)..issued[1].end, CycleVals) :
       \E clk \in ClockReads(2 * Len(data)) :
           LET r == update_with_data(MEASURES.counter[name], data, clk)
           IN  /\ MEASURES' = [MEASURES EXCEPT !.counter[name] = r.self]
               /\ now' = ClockAfter(clk)
               /\ IF r.raised = "none"
                      THEN /\ counts' = counts \ {name}
                           /\ Continue("counters_loop", issued)
                      ELSE /\ Finish(r.raised, "counters_loop", name, issued)
                           /\ UNCHANGED counts
    /\ UNCHANGED <<call, server, phase, cycle, prev>>

\* The loop of update_counters ends; update_all goes on to the unique
\* measures (lines 158-159), of which there is one.
CountersDone ==
    /\ pc = "counters_loop"
    /\ counts = {}
    /\ Continue("unique_today", issued)
    /\ UNCHANGED <<now, MEASURES, call, server, phase, cycle, counts, prev>>

\* A different design: each update_day call is wrapped in its own try, so
\* that a failure of one does not stop the refresh.
UniqueDay_contained(at, g, next) ==
    /\ pc = at
    /\ \E clk \in ClockReads(1) :
           LET d    == IF g = "today" THEN today(clk, 1) ELSE yesterday(clk, 1)
               sent == Append(issued, Query({"active_users"}, d, d + ONE_DAY))
           IN  /\ now' = ClockAfter(clk)
               /\ \E resp \in RunResponses(DayDates(d), DayDates(d)) :
                      LET r == update_day(MEASURES.unique["active_users"], resp, d, g)
                      IN  /\ MEASURES' = [MEASURES EXCEPT
                                             !.unique["active_users"] = r.self]
                          /\ Continue(next, sent)
    /\ UNCHANGED <<call, server, phase, cycle, counts, prev>>

\* A different design: a query that raised a remote error is issued a second
\* time before the refresh gives up.
UniqueDay_retry(at, g, next) ==
    /\ pc = at
    /\ \E clk \in ClockReads(1) :
           LET d    == IF g = "today" THEN today(clk, 1) ELSE yesterday(clk, 1)
               sent == Append(issued, Query({"active_users"}, d, d + ONE_DAY))
           IN  /\ now' = ClockAfter(clk)
               /\ \E resp \in RunResponses(DayDates(d), DayDates(d)) :
                      LET r == update_day(MEASURES.unique["active_users"], resp, d, g)
                      IN  /\ MEASURES' = [MEASURES EXCEPT
                                             !.unique["active_users"] = r.self]
                          /\ IF r.raised = "none"
                                 THEN Continue(next, sent)
                                 ELSE Finish(r.raised, at, "active_users",
                                             Append(sent, sent[Len(sent)]))
    /\ UNCHANGED <<call, server, phase, cycle, counts, prev>>

\* One update_day call of UniqueMeasure.update (lines 87-88).
UniqueDay(at, g, next) ==
    /\ pc = at
    /\ \E clk \in ClockReads(1) :
           LET d    == IF g = "today" THEN today(clk, 1) ELSE yesterday(clk, 1)
               sent == Append(issued, Query({"active_users"}, d, d + ONE_DAY))
           IN  /\ now' = ClockAfter(clk)
               /\ \E resp \in RunResponses(DayDates(d), DayDates(d)) :
                      LET r == update_day(MEASURES.unique["active_users"], resp, d, g)
                      IN  /\ MEASURES' = [MEASURES EXCEPT
                                             !.unique["active_users"] = r.self]
                          /\ IF r.raised = "none"
                                 THEN Continue(next, sent)
                                 ELSE Finish(r.raised, at, "active_users", sent)
    /\ UNCHANGED <<call, server, phase, cycle, counts, prev>>

UniqueToday == UniqueDay("unique_today", "today", "unique_yesterday")

UniqueYesterday == UniqueDay("unique_yesterday", "yesterday", "unique_last_7d")

\* One update_range call of UniqueMeasure.update (lines 90-93); after the
\* last one update, and with it update_all, returns.
UniqueRange(at, days, g, next) ==
    /\ pc = at
    /\ \E clk \in ClockReads(2) :
           LET start_date == yesterday(clk, 1) - days
               end_date   == yesterday(clk, 2)
               sent       == Append(issued, Query({"active_users"}, start_date,
                                                  end_date + ONE_DAY))
           IN  /\ now' = ClockAfter(clk)
               /\ \E resp \in RunResponses(DayDates(start_date), DayDates(end_date)) :
                      LET r == update_range(MEASURES.unique["active_users"], resp,
                                            start_date, end_date, g)
                      IN  /\ MEASURES' = [MEASURES EXCEPT
                                             !.unique["active_users"] = r.self]
                          /\ IF r.raised # "none"
                                 THEN Finish(r.raised, at, "active_users", sent)
                             ELSE IF next = "return"
                                 THEN Finish("none", "update_all", "", sent)
                             ELSE Continue(next, sent)
    /\ UNCHANGED <<call, server, phase, cycle, counts, prev>>

UniqueLast7d == UniqueRange("unique_last_7d", SEVEN_DAYS, "last_7d", "unique_last_30d")

UniqueLast30d == UniqueRange("unique_last_30d", THIRTY_DAYS, "last_30d", "return")

\* start_wsgi_server(PORT) (line 210).
StartServer ==
    /\ pc = "start_wsgi_server"
    /\ server' = TRUE
    /\ pc' = "create_up"
    /\ UNCHANGED <<now, MEASURES, call, up, phase, cycle, counts, issued, result, prev, boot, wall>>

\* up = Gauge(...) (lines 214-217): the gauge is registered with the value 0.
CreateUp ==
    /\ pc = "create_up"
    /\ up' = <<0>>
    /\ pc' = "set_up"
    /\ UNCHANGED <<now, MEASURES, call, server, phase, cycle, counts, issued, result, prev, boot, wall>>

\* up.set(1) (line 218); the loop is entered.
SetUp ==
    /\ pc = "set_up"
    /\ up' = <<1>>
    /\ phase' = "Serving"
    /\ pc' = "sleep"
    /\ UNCHANGED <<now, MEASURES, call, server, cycle, counts, issued, result, prev, boot, wall>>

\* A different design: a fixed-rate schedule, which sleeps only for what is
\* left of the interval after the time the last call took.
Sleep_fixed_rate ==
    /\ pc = "sleep"
    /\ cycle < MaxCycles
    /\ cycle' = cycle + 1
    /\ prev' = result.raised
    /\ result' = Running
    /\ wall' = [wall EXCEPT !.slept = IF wall.took >= UPDATE_SECS THEN 0
                                      ELSE UPDATE_SECS - wall.took]
    /\ pc' = "update_counters"
    /\ UNCHANGED <<now, MEASURES, call, up, server, phase, counts, issued, boot>>

\* time.sleep(UPDATE_SECS) and the call of update_all (lines 223-225).
Sleep ==
    /\ pc = "sleep"
    /\ cycle < MaxCycles
    /\ cycle' = cycle + 1
    /\ prev' = result.raised
    /\ result' = Running
    /\ wall' = [wall EXCEPT !.slept = UPDATE_SECS]
    /\ pc' = "update_counters"
    /\ UNCHANGED <<now, MEASURES, call, up, server, phase, counts, issued, boot>>

Next ==
    \/ GetMastodon
    \/ UpdateCounters
    \/ CountersLoop
    \/ CountersDone
    \/ UniqueToday
    \/ UniqueYesterday
    \/ UniqueLast7d
    \/ UniqueLast30d
    \/ StartServer
    \/ CreateUp
    \/ SetUp
    \/ Sleep
    \/ Tick

Spec == Init /\ [][Next]_vars

\* ------------------------------------------------------------- the claims
\* The counter measure the measure-level specification exercises.
TheCounter == MEASURES.counter["interactions"]

\* A call of update_with_data has returned or raised, and every read of the
\* clock it made returned the same date: "today" is that date.
CounterCalled ==
    /\ pc = "returned"
    /\ call.op = "update_with_data"
    /\ call.first = call.last

HasToday(data) == now \in Dates(data)

HasYesterday(data) == (now - ONE_DAY) \in Dates(data)

\* C1: update_with_data is all-or-nothing.  A series that lacks a point dated
\* today or lacks a point dated yesterday makes the call raise and leaves
\* both gauges of the measure as they were; a series that holds both makes
\* the call return with both gauges set from the series.
C1_AllOrNothing ==
    CounterCalled =>
        IF HasToday(call.data) /\ HasYesterday(call.data)
        THEN /\ call.raised = "none"
             /\ \E i, j \in 1..Len(call.data) :
                    /\ TheCounter.today = call.data[i].value
                    /\ TheCounter.yesterday = call.data[j].value
                    /\ i # j
        ELSE /\ call.raised = "AssertionError"
             /\ TheCounter = call.before

\* C1's case: a series with a point for today and none for yesterday, whose
\* value for today differs from the gauge's, has been refused.
C1_Witness ==
    /\ CounterCalled
    /\ HasToday(call.data)
    /\ ~HasYesterday(call.data)
    /\ ValueAt(call.data, now) # call.before.today
    /\ call.raised = "AssertionError"

\* C2: for a series with distinct dates that holds a point for today and a
\* point for yesterday, in any order and among points of other dates, the
\* today gauge ends equal to the value of today's point and the yesterday
\* gauge equal to the value of yesterday's point.
C2_TodayAndYesterdayStored ==
    (CounterCalled /\ HasToday(call.data) /\ HasYesterday(call.data)) =>
        /\ TheCounter.today = ValueAt(call.data, now)
        /\ TheCounter.yesterday = ValueAt(call.data, now - ONE_DAY)

\* C2's case: today's point comes before yesterday's, a point of another date
\* lies between them, and the two values differ from each other.
C2_Witness ==
    /\ CounterCalled
    /\ Len(call.data) = 3
    /\ call.data[1].date = now
    /\ call.data[2].date \notin {now, now - ONE_DAY}
    /\ call.data[3].date = now - ONE_DAY
    /\ call.data[1].value # call.data[3].value
    /\ TheCounter.today = call.data[1].value
    /\ TheCounter.yesterday = call.data[3].value
    /\ TheCounter # call.before

\* The unique measure the measure-level specification exercises.
TheUnique == MEASURES.unique["active_users"]

\* An update_day call has ended, and the remote returned a result.
DayCalled ==
    /\ pc = "returned"
    /\ call.op = "update_day"
    /\ call.resp.raised = "none"

\* C5: update_day for the day d stores the returned value in the target gauge
\* exactly when the result holds exactly one point and that point is dated d;
\* with no point, with two or more, or with one point of another date, the
\* call raises and the measure is unchanged.
C5_UpdateDayShape ==
    DayCalled =>
        IF Len(call.resp.data) = 1 /\ call.resp.data[1].date = call.d
        THEN /\ call.raised = "none"
             /\ TheUnique = [call.before EXCEPT ![call.g] = call.resp.data[1].value]
        ELSE /\ call.raised = "AssertionError"
             /\ TheUnique = call.before

\* C5's case: a single point of another date, whose value differs from the
\* gauge's, has been refused.
C5_Witness ==
    /\ DayCalled
    /\ Len(call.resp.data) = 1
    /\ call.resp.data[1].date # call.d
    /\ call.resp.data[1].value # call.before[call.g]
    /\ call.raised = "AssertionError"
    /\ TheUnique = call.before

\* An update_range call has ended, and the remote returned a result.
RangeCalled ==
    /\ pc = "returned"
    /\ call.op = "update_range"
    /\ call.resp.raised = "none"

\* The series is not empty, its minimum date is start and its maximum date is end.
Covers(data, start_date, end_date) ==
    /\ start_date \in Dates(data)
    /\ end_date \in Dates(data)
    /\ \A d \in Dates(data) : start_date <= d /\ d <= end_date

\* C6: update_range for start..end stores the result's total in the target
\* gauge exactly when the minimum date of the series is start and its maximum
\* date is end, whatever the order of the series; for every other series, a
\* strict sub-range and the empty series included, the call raises and the
\* measure is unchanged.
C6_UpdateRangeCoverage ==
    RangeCalled =>
        IF Covers(call.resp.data, call.start_date, call.end_date)
        THEN /\ call.raised = "none"
             /\ TheUnique = [call.before EXCEPT ![call.g] = call.resp.total]
        ELSE /\ call.raised \in {"AssertionError", "ValueError"}
             /\ TheUnique = call.before

\* C6's case: a series that covers a strict sub-range only (it starts a day
\* late and ends on the requested end), out of order, has been refused.
C6_Witness ==
    /\ RangeCalled
    /\ Len(call.resp.data) = 2
    /\ call.resp.data[1].date = call.end_date
    /\ call.resp.data[2].date = call.start_date + ONE_DAY
    /\ call.resp.total # call.before[call.g]
    /\ call.raised = "AssertionError"
    /\ TheUnique = call.before

\* ---- claims about the program (Spec)
\* The errors the measures raise on a response of the wrong shape.
ShapeErrors == {"AssertionError", "ValueError"}

\* The current update_all call has ended; LastResult tells how.
CycleEnded == cycle >= 1 /\ result.call = cycle

LastResult == result

\* A poll of the loop (not the bootstrap call) has ended.
ServingCycleEnded == CycleEnded /\ cycle >= 2

\* The steps of UniqueMeasure.update and the gauge each one sets, in order.
UniqueSteps == <<"unique_today", "unique_yesterday", "unique_last_7d", "unique_last_30d">>

UniqueGauges == <<"today", "yesterday", "last_7d", "last_30d">>

StepIndex(at) == CHOOSE i \in 1..4 : UniqueSteps[i] = at

\* The gauges of the sub-updates before the i-th hold this cycle's value.
StoredBefore(i) ==
    \A j \in 1..(i - 1) : Fresh(TheUnique[UniqueGauges[j]])

\* The gauges of the i-th sub-update and of the later ones hold the value they
\* had when the cycle began.
RetainedFrom(i) ==
    \A j \in i..4 : Stale(TheUnique[UniqueGauges[j]])

\* Every gauge of every measure holds the value it had when the cycle began.
AllRetained ==
    /\ \A name \in MEASURE_NAMES.counter : StaleCounter(name)
    /\ RetainedFrom(1)

\* C3 as stated: in a poll in which a remote query raised a server or network
\* error, whichever query it was, every gauge has the value it had before the
\* poll, up is 0 and the loop goes on.
C3_AllGaugesRetained ==
    (ServingCycleEnded /\ LastResult.raised \in RemoteErrors) =>
        /\ AllRetained
        /\ up = <<0>>
        /\ pc = "sleep"

\* C3 as amended: in a poll in which a remote query raised a server or network
\* error, up is 0, the loop goes on, and every gauge fed by the failing query
\* or by a later query of the poll has the value it had before the poll (all
\* gauges, when the failing query is the first, batched one); the gauges set
\* by the unique sub-updates that completed before the failing query keep the
\* poll's values.
C3_LaterGaugesRetained ==
    (ServingCycleEnded /\ LastResult.raised \in RemoteErrors) =>
        /\ up = <<0>>
        /\ pc = "sleep"
        /\ LastResult.at = "update_counters" => AllRetained
        /\ LastResult.at # "update_counters" =>
               /\ StoredBefore(StepIndex(LastResult.at))
               /\ RetainedFrom(StepIndex(LastResult.at))

\* C3's case: a poll whose 7-day query raised, after the counters and the two
\* day gauges were written.
C3_Witness ==
    /\ ServingCycleEnded
    /\ LastResult.raised = "MastodonServerError"
    /\ LastResult.at = "unique_last_7d"
    /\ \A name \in MEASURE_NAMES.counter : Fresh(MEASURES.counter[name].today)
    /\ Fresh(TheUnique.today)
    /\ Fresh(TheUnique.yesterday)
    /\ TheUnique.last_7d = cycle - 1
    /\ TheUnique.last_30d = cycle - 1
    /\ up = <<0>>

\* C4: after every completed poll of the loop, up is 1 if update_all returned
\* and 0 if it raised a remote server error or a remote network error.
C4_GateFollowsLastPoll ==
    ServingCycleEnded =>
        /\ LastResult.raised = "none" => up = <<1>>
        /\ LastResult.raised = "MastodonServerError" => up = <<0>>
        /\ LastResult.raised = "MastodonNetworkError" => up = <<0>>

\* C4's case: a poll that failed, followed by a poll that succeeded, with up
\* back at 1.
C4_Witness ==
    /\ ServingCycleEnded
    /\ prev \in RemoteErrors
    /\ LastResult.raised = "none"
    /\ up = <<1>>

\* C7 as stated: the four sub-updates of a refresh are independent: when one
\* fails, the others are still issued, so a refresh that has ended has issued
\* all four queries (after the one counter query).
C7_AllSubUpdatesIssued ==
    (CycleEnded /\ LastResult.at \in {UniqueSteps[i] : i \in 1..4}) =>
        LastResult.queries = 5

\* C7 as amended: a failure of one sub-update does not roll back the
\* sub-updates already stored, but it ends the refresh: the later sub-updates
\* are not issued and their gauges, like the failing one's, keep their
\* previous values.
C7_FailureEndsRefresh ==
    (CycleEnded /\ LastResult.at \in {UniqueSteps[i] : i \in 1..4}) =>
        LET i == StepIndex(LastResult.at)
        IN  /\ LastResult.queries = 1 + i
            /\ StoredBefore(i)
            /\ RetainedFrom(i)

\* C7's case: the 7-day sub-update failed its coverage check in a poll; today
\* and yesterday hold the poll's values, last_7d and last_30d the old ones.
C7_Witness ==
    /\ ServingCycleEnded
    /\ LastResult.at = "unique_last_7d"
    /\ LastResult.raised = "AssertionError"
    /\ Fresh(TheUnique.today)
    /\ Fresh(TheUnique.yesterday)
    /\ TheUnique.last_7d = cycle - 1
    /\ TheUnique.last_30d = cycle - 1
    /\ LastResult.queries = 4

\* C8 as stated: a data-shape error is contained to its measure, and every
\* other measure of the cycle is still updated: when the cycle has ended, the
\* loop of update_counters has visited every other key of the response and
\* the four queries of the unique measure have been issued.
C8_ShapeErrorContained ==
    (CycleEnded /\ LastResult.raised \in ShapeErrors) =>
        /\ counts \subseteq {LastResult.name}
        /\ LastResult.queries = 5

\* C8 as amended: a data-shape error leaves the measure it occurs in with its
\* stale value but is not contained: it ends update_all and the process, and
\* the measures the cycle had not yet reached (the counters left in the
\* response, the unique measure) are not updated either.
C8_ShapeErrorEndsCycle ==
    (CycleEnded /\ LastResult.raised \in ShapeErrors) =>
        /\ pc = "exited"
        /\ LastResult.at = "counters_loop" =>
               /\ LastResult.name \in counts
               /\ \A name \in counts : StaleCounter(name)
               /\ RetainedFrom(1)
               /\ LastResult.queries = 1
        /\ LastResult.at # "counters_loop" =>
               /\ RetainedFrom(StepIndex(LastResult.at))
               /\ LastResult.queries = 1 + StepIndex(LastResult.at)

\* C8's case: in a poll, the response named both counters; one was updated,
\* the other raised for a missing day, and the unique measure was not reached.
C8_Witness ==
    /\ ServingCycleEnded
    /\ LastResult.raised = "AssertionError"
    /\ LastResult.at = "counters_loop"
    /\ Cardinality(counts) = 1
    /\ \E name \in MEASURE_NAMES.counter \ counts :
           Fresh(MEASURES.counter[name].today)
    /\ TheUnique.today = cycle - 1
    /\ pc = "exited"

\* C9 as stated: once in the Serving state, the loop never exits.
C9_LoopNeverExits ==
    phase = "Serving" => pc # "exited"

\* C9 as amended: after a poll that returned or raised a remote server or
\* network error, the loop sleeps and starts another poll; a data-shape error
\* inside a measure is not caught and ends the process, and nothing else does.
C9_LoopExitsOnShapeErrorOnly ==
    /\ (ServingCycleEnded /\ LastResult.raised \in RemoteErrors \cup {"none"}) =>
           /\ pc = "sleep"
           /\ cycle < MaxCycles => ENABLED Sleep
    /\ (ServingCycleEnded /\ LastResult.raised \in ShapeErrors) => pc = "exited"
    /\ (phase = "Serving" /\ pc = "exited") =>
           /\ ServingCycleEnded
           /\ LastResult.raised \in ShapeErrors

\* C9's case: a poll failed with a remote error, the next one ran, and a
\* data-shape error in it ended the process.
C9_Witness ==
    /\ phase = "Serving"
    /\ CycleEnded
    /\ prev \in RemoteErrors
    /\ LastResult.raised \in ShapeErrors
    /\ pc = "exited"

\* C10: the scrape endpoint is open only after the bootstrap update_all has
\* returned; if it raised, whatever the error, the process has ended with the
\* endpoint closed and the loop not entered.
C10_ServeOnlyAfterBootstrap ==
    /\ server => boot = "none"
    /\ phase = "Serving" => server
    /\ boot \notin {"no call", "none"} =>
           /\ pc = "exited"
           /\ ~server
           /\ phase = "Bootstrapping"
           /\ cycle = 1

\* C10's case: the bootstrap call raised a remote error after it had written
\* gauges, and the process ended without serving them.
C10_Witness ==
    /\ boot \in RemoteErrors
    /\ LastResult.at = "unique_last_30d"
    /\ TheUnique.today = 1
    /\ pc = "exited"
    /\ ~server

\* The scrape endpoint answers: the server thread runs and the process lives.
EndpointOpen == server /\ pc # "exited"

\* The gauge holds a value some response has set (a response of the c-th
\* update_all carries c >= 1; 0 is the value a gauge is created with).
EverSet(v) == v # 0

\* C11: in every state in which the scrape endpoint is open, every gauge of
\* every counter measure and of every unique measure has been set at least
\* once from a response; no scrape sees a gauge with its initial zero.
C11_NoInitialZeroServed ==
    EndpointOpen =>
        /\ \A name \in MEASURE_NAMES.counter :
               /\ EverSet(MEASURES.counter[name].today)
               /\ EverSet(MEASURES.counter[name].yesterday)
        /\ \A g \in {"today", "yesterday", "last_7d", "last_30d"} :
               EverSet(TheUnique[g])

\* C11's failing case: the bootstrap response left out one counter,
\* update_all returned all the same, and the endpoint serves that counter's
\* gauges with their initial zero while up is 1.
C11_Witness ==
    /\ EndpointOpen
    /\ boot = "none"
    /\ up = <<1>>
    /\ \E name \in MEASURE_NAMES.counter :
           /\ ~EverSet(MEASURES.counter[name].today)
           /\ ~EverSet(MEASURES.counter[name].yesterday)
    /\ \A g \in {"today", "yesterday", "last_7d", "last_30d"} : EverSet(TheUnique[g])

\* C12 as stated: a poll that ends with a data-shape error of a measure has
\* the same effect on up as a poll that ends with a remote error: up is 0.
C12_ShapeFailureClearsGate ==
    (ServingCycleEnded /\ LastResult.raised \in ShapeErrors \cup RemoteErrors) =>
        up = <<0>>

\* C12 as amended: the two kinds of failure differ in the flag.  A remote
\* error sets up to 0 and the loop goes on; a data-shape error of a measure is
\* not caught, so up is not written at all: it keeps the value the poll before
\* left (1 after a poll that returned, 0 after one that raised a remote
\* error), and the process ends.
C12_ShapeFailureLeavesGate ==
    /\ (ServingCycleEnded /\ LastResult.raised \in RemoteErrors) =>
           /\ up = <<0>>
           /\ pc = "sleep"
    /\ (ServingCycleEnded /\ LastResult.raised \in ShapeErrors) =>
           /\ up = IF prev = "none" THEN <<1>> ELSE <<0>>
           /\ pc = "exited"

\* C12's case: a poll that followed a successful one ended with a data-shape
\* error, and up still reads 1.
C12_Witness ==
    /\ ServingCycleEnded
    /\ LastResult.raised \in ShapeErrors
    /\ prev = "none"
    /\ up = <<1>>
    /\ pc = "exited"

\* C13: updates are idempotent.  With the date unchanged, a second
\* update_with_data with the same series, or a second update_day or
\* update_range answered by the same response, leaves every gauge as the first
\* application left it and ends the way the first did.
C13_Idempotent ==
    pc = "repeated" =>
        /\ MEASURES = call.once
        /\ call.raised = call.of.raised

\* C13's case: a series that changed both gauges of the counter when it was
\* applied first has been applied a second time.
C13_Witness ==
    /\ pc = "repeated"
    /\ call.of.op = "update_with_data"
    /\ call.of.raised = "none"
    /\ call.once.counter["interactions"].today # call.of.before.today
    /\ call.once.counter["interactions"].yesterday # call.of.before.yesterday
    /\ MEASURES = call.once

\* Both gauges of the counter hold this cycle's values.
FreshCounter(name) ==
    Fresh(MEASURES.counter[name].today) /\ Fresh(MEASURES.counter[name].yesterday)

\* A step of the program leaves each gauge alone or sets it to a value of the
\* response of the running update_all: it never resets one.
KeptOrWritten ==
    /\ \A name \in MEASURE_NAMES.counter : \A g \in {"today", "yesterday"} :
           MEASURES'.counter[name][g] \in {MEASURES.counter[name][g], cycle}
    /\ \A g \in {"today", "yesterday", "last_7d", "last_30d"} :
           MEASURES'.unique["active_users"][g] \in
               {MEASURES.unique["active_users"][g], cycle}

\* The state an update_all that raised leaves: the error has reached main
\* (which went back to sleep or ended), the gauges of the steps before the
\* failing one hold the cycle's values, those of the failing step and of the
\* later ones the values from before the cycle.
ProgressAtError ==
    (CycleEnded /\ LastResult.raised # "none") =>
        /\ pc \in {"sleep", "exited"}
        /\ \A name \in MEASURE_NAMES.counter : FreshCounter(name) \/ StaleCounter(name)
        /\ LastResult.at = "update_counters" => AllRetained
        /\ LastResult.at = "counters_loop" =>
               /\ LastResult.name \in counts
               /\ \A name \in counts : StaleCounter(name)
               /\ RetainedFrom(1)
        /\ LastResult.at \notin {"update_counters", "counters_loop"} =>
               /\ counts = {}
               /\ StoredBefore(StepIndex(LastResult.at))
               /\ RetainedFrom(StepIndex(LastResult.at))

\* C14: when update_all ends with an error, the error reaches its caller and
\* the partial progress stays: gauges written before the failing step keep the
\* new value, gauges of the failing step and of later steps keep the previous
\* one, and no step ever resets a gauge.
C14_PartialProgressKept == []ProgressAtError /\ [][KeptOrWritten]_vars

\* C14's case: in a poll, update_day for yesterday got a result of the wrong
\* shape after the counters and the today gauge were written.
C14_Witness ==
    /\ ServingCycleEnded
    /\ LastResult.raised = "AssertionError"
    /\ LastResult.at = "unique_yesterday"
    /\ \A name \in MEASURE_NAMES.counter : FreshCounter(name)
    /\ Fresh(TheUnique.today)
    /\ TheUnique.yesterday = cycle - 1
    /\ TheUnique.last_7d = cycle - 1
    /\ TheUnique.last_30d = cycle - 1

\* The queries update_all has issued when control is at pc.
IssuedAt(at) ==
    IF at \in {"counters_loop", "unique_today"} THEN 1
    ELSE IF at = "unique_yesterday" THEN 2
    ELSE IF at = "unique_last_7d" THEN 3
    ELSE IF at = "unique_last_30d" THEN 4
    ELSE 0

\* The queries an update_all has issued when it ends at the step at.
IssuedWhenEnded(at) ==
    IF at \in {"update_counters", "counters_loop"} THEN 1
    ELSE IF at = "update_all" THEN 5
    ELSE 1 + StepIndex(at)

\* q is what the k-th query of a cycle must be: the batched query for all the
\* counters, then for the unique measure a day, a day, the 7-day range and the
\* 30-day range (a window is a day longer when the date changed while it was
\* computed).
InOrder(k, q) ==
    LET days == q.end - q.start
    IN  IF k = 1 THEN q.names = MEASURE_NAMES.counter
        ELSE /\ q.names = {"active_users"}
             /\ k \in {2, 3} => days = ONE_DAY
             /\ k = 4 => days \in {SEVEN_DAYS + ONE_DAY, SEVEN_DAYS + 2 * ONE_DAY}
             /\ k = 5 => days \in {THIRTY_DAYS + ONE_DAY, THIRTY_DAYS + 2 * ONE_DAY}
             /\ k <= 5

QueriesInOrder ==
    /\ Len(issued) = IssuedAt(pc)
    /\ \A k \in 1..Len(issued) : InOrder(k, issued[k])
    /\ CycleEnded =>
           /\ LastResult.queries = IssuedWhenEnded(LastResult.at)
           /\ InOrder(LastResult.queries, LastResult.query)

\* A step issues at most one query, after the ones already issued; the list
\* is emptied when update_all ends.
NoReissue ==
    \/ issued' = issued
    \/ issued' = <<>> /\ result' # Running /\ result'.queries <= Len(issued) + 1
    \/ Len(issued') = Len(issued) + 1 /\ SubSeq(issued', 1, Len(issued)) = issued

\* C15: one cycle issues its queries in a fixed order and at most once each:
\* one batched query naming all the counters, then for the unique measure the
\* queries for today, yesterday, the 7-day range and the 30-day range; no
\* query is issued again in the cycle after a failure.
C15_QueriesInOrderOnce == []QueriesInOrder /\ [][NoReissue]_vars

\* C15's case: the poll after a failed one has issued the batched query and
\* the first three queries of the unique measure, and is at the fourth.
C15_Witness ==
    /\ pc = "unique_last_30d"
    /\ prev \in RemoteErrors
    /\ Len(issued) = 4
    /\ issued[1].names = MEASURE_NAMES.counter
    /\ issued[4].end - issued[4].start = SEVEN_DAYS + ONE_DAY

\* An update_all call is under way.
MidCycle ==
    pc \in {"update_counters", "counters_loop", "unique_today", "unique_yesterday",
            "unique_last_7d", "unique_last_30d"}

\* A step begins an update_all call.
CycleStarts == cycle' # cycle

\* C16 as stated: cycles do not overlap and none is skipped, and when a cycle
\* took longer than the poll interval the next one starts immediately after
\* it, without a sleep.
C16_LateCycleStartsAtOnce ==
    [][(CycleStarts /\ cycle >= 1) =>
           /\ CycleEnded
           /\ cycle' = cycle + 1
           /\ wall.took > UPDATE_SECS => wall'.slept = 0]_vars

\* C16 as amended: cycles do not overlap and none is skipped or queued: a
\* cycle of the loop starts only when the previous one has ended, as the next
\* in number, and always after a sleep of the full poll interval that begins
\* when the previous one ended, however long that one took.
C16_FullSleepBetweenCycles ==
    /\ [](MidCycle => result = Running)
    /\ [][(CycleStarts /\ cycle >= 1) =>
              /\ CycleEnded
              /\ pc = "sleep"
              /\ cycle' = cycle + 1
              /\ wall'.slept = UPDATE_SECS]_vars

\* C16's case: a poll took twice the poll interval, and the next poll has
\* begun after a sleep of the full interval.
C16_Witness ==
    /\ pc = "update_counters"
    /\ cycle >= 3
    /\ wall.took > UPDATE_SECS
    /\ wall.slept = UPDATE_SECS

\* Every gauge of every measure holds a value of this cycle's responses.
AllFresh ==
    /\ \A name \in MEASURE_NAMES.counter : FreshCounter(name)
    /\ StoredBefore(5)

\* C17: whenever up is 1 after a poll, every gauge was written during that
\* poll from that poll's responses, whatever the remote returned; up is never
\* 1 while a gauge still shows a value of an earlier cycle.
C17_GateImpliesAllFresh ==
    (ServingCycleEnded /\ pc = "sleep" /\ up = <<1>>) => AllFresh

\* C17's failing case: the batched response of a poll left out one counter;
\* update_all returned, up is 1, and that counter's gauges still show the
\* values of the cycle before, while every other gauge is fresh.
C17_Witness ==
    /\ ServingCycleEnded
    /\ pc = "sleep"
    /\ LastResult.raised = "none"
    /\ up = <<1>>
    /\ \E name \in MEASURE_NAMES.counter :
           /\ MEASURES.counter[name].today = cycle - 1
           /\ MEASURES.counter[name].yesterday = cycle - 1
           /\ \A other \in MEASURE_NAMES.counter \ {name} : FreshCounter(other)
    /\ StoredBefore(5)

\* The inclusive range start..end of the query q has the length days.
RangeOf(q, days) == (q.end - ONE_DAY) - q.start = days

\* C18: every window a cycle issues has the prescribed width even when the
\* date advances while the cycle runs: the counter query spans yesterday up
\* to today + 1 day for one value of today, the range queries have end minus
\* start equal to 7 and to 30 days, and the days of the unique measure's
\* today and yesterday queries are consecutive.
C18_WindowsAsPrescribed ==
    /\ Len(issued) >= 1 => issued[1].end - issued[1].start = 2 * ONE_DAY
    /\ Len(issued) >= 3 => issued[3].start = issued[2].start - ONE_DAY
    /\ Len(issued) >= 4 => RangeOf(issued[4], SEVEN_DAYS)
    /\ (CycleEnded /\ LastResult.queries = 5) => RangeOf(LastResult.query, THIRTY_DAYS)

\* C18's failing case: the date advanced between today() of line 87 and
\* yesterday() of line 88, both queries asked for the same day, both passed
\* their checks, and the today and the yesterday gauge hold that one day.
C18_Witness ==
    /\ pc = "unique_last_7d"
    /\ Len(issued) = 3
    /\ issued[2].start = issued[3].start
    /\ issued[2].end = issued[3].end
    /\ Fresh(TheUnique.today)
    /\ Fresh(TheUnique.yesterday)

\* The update_all call that ended last (the bootstrap call included) returned.
LastCompletedSucceeded ==
    IF CycleEnded THEN LastResult.raised = "none" ELSE prev = "none"

\* C19: in every state in which the scrape endpoint is open, up is present
\* and reads 1 exactly if the cycle completed last succeeded; after a
\* successful bootstrap the endpoint is never open with up absent or 0.
C19_GateServedConsistent ==
    EndpointOpen =>
        /\ up # <<>>
        /\ up = <<1>> <=> LastCompletedSucceeded

\* C19's failing case: the bootstrap succeeded, the endpoint is open, the up
\* gauge has been created and up.set(1) has not run yet: a scrape reads 0.
C19_Witness ==
    /\ EndpointOpen
    /\ boot = "none"
    /\ cycle = 1
    /\ LastCompletedSucceeded
    /\ pc = "set_up"
    /\ up = <<0>>

====
